---- MODULE Spec2Model ----
(***************************************************************************)
(* Model of the OddSmallNumbers association provider                       *)
(* (Unix/samples/Providers/Demo-i2/X_OddSmallNumbers_Class_Provider.cpp)   *)
(* and of the service control script of the server that hosts it.          *)
(*                                                                         *)
(* Provider.  The host invokes one of the nine provider operations with a  *)
(* fresh Context; the handler posts instances and a result code on that    *)
(* Context; the host then takes the call back (Return).  `posts' is the    *)
(* sequence of Context::Post calls of the call in progress, `call' the     *)
(* operation and its arguments, `pc' the position inside the handler,      *)
(* `resolver' the static helper that AssociatorInstances entered, `i' the  *)
(* loop variable of AssocOfNumberWorld, `m_Module' the provider's only     *)
(* data member.  Three specifications run the provider:                    *)
(*   Spec      one call at a time; the statements of a handler are steps   *)
(*             and the for statement of AssocOfNumberWorld is one step;    *)
(*   LoopSpec  one call at a time; every pass of the for statement is a    *)
(*             step; the handler's steps are taken fairly;                 *)
(*   ConcSpec  several calls at a time, each with its own Context, their   *)
(*             steps interleaved (`ctx' holds the calls that wait).        *)
(*                                                                         *)
(* Script.  ScriptSpec runs the service control script: `env' is the       *)
(* platform the script finds, `running' whether the server runs, `arg'     *)
(* the argument of the last run of the script, `issued' the commands that  *)
(* run issued, `status' its exit status, `nStarts' the number of start     *)
(* commands issued since the last stop command.                            *)
(***************************************************************************)
EXTENDS Integers, Sequences, FiniteSets, TLC

VARIABLES call, pc, resolver, posts, i, m_Module, ctx,
          env, running, arg, issued, status, nStarts

callVars == <<call, pc, resolver, posts, i>>
scriptVars == <<env, running, arg, issued, status, nStarts>>

vars == <<call, pc, resolver, posts, i, m_Module, ctx,
          env, running, arg, issued, status, nStarts>>

(***************************************************************************)
(* Bounds of the model (inputs the host may pass).                         *)
(***************************************************************************)
\* Number keys 0..MaxNumber are enumerated, plus a few large ones.
MaxNumber == 3

\* Uint64 key values.  num % 2 cannot overflow, so the width plays no part;
\* the large values sit at and around the end of the domain [0,10000).
Numbers == (0 .. MaxNumber) \cup {9998, 9999, 10000, 10001, 2147483646, 2147483647}

\* Name key values: the singleton's name, and names that differ from it in
\* case, by a prefix, or entirely.
Names == {"theWorld", "theworld", "TheWorld", "otherWorld", "theWorld2", ""}

\* role / resultRole strings: the wildcard, the two role names, and
\* near-misses (other letter case, prefix, longer string, unrelated).
Roles == {"", "number", "world", "Number", "WORLD", "numbe", "worlds", "x"}

NameSpaces == {"", "root/cimv2"}
ResultClasses == {"", "X_NumberWorld", "X_Bogus"}
PropertySets == {{}, {"Number"}}
Filters == {"NULL", "filter"}

\* The arguments of AssociatorInstances that neither resolver reads: one base
\* combination, and the combinations that differ from it in one argument.
BaseRest ==
    [nameSpace |-> "", resultClass |-> "", propertySet |-> {},
     keysOnly |-> FALSE, filter |-> "NULL"]

RestArgs ==
    {BaseRest}
    \cup { [BaseRest EXCEPT !.nameSpace = v] : v \in NameSpaces }
    \cup { [BaseRest EXCEPT !.resultClass = v] : v \in ResultClasses }
    \cup { [BaseRest EXCEPT !.propertySet = v] : v \in PropertySets }
    \cup { [BaseRest EXCEPT !.keysOnly = v] : v \in BOOLEAN }
    \cup { [BaseRest EXCEPT !.filter = v] : v \in Filters }

(***************************************************************************)
(* Result codes (MI_Result) used by the provider.                          *)
(***************************************************************************)
MI_RESULT_OK == "MI_RESULT_OK"
MI_RESULT_FAILED == "MI_RESULT_FAILED"
MI_RESULT_NOT_SUPPORTED == "MI_RESULT_NOT_SUPPORTED"

\* End of the generation loop's domain: for ( int i = 0; i < 10000; i++ )
DomainEnd == 10000

(***************************************************************************)
(* Instance handles.  A handle carries the answers of the two type         *)
(* predicates and, per key attribute, a presence flag and a value (the     *)
(* value field is there whether or not the key is present).                *)
(***************************************************************************)
Field(e, v) == [exists |-> e, value |-> v]

NoNumber == Field(FALSE, 0)
NoName == Field(FALSE, "")

Handle(a, b, num, name) ==
    [isSmallNumber |-> a, isNumberWorld |-> b, Number |-> num, Name |-> name]

SmallNumberHandles ==
    { Handle(TRUE, FALSE, Field(e, v), NoName) : e \in BOOLEAN, v \in Numbers }

NumberWorldHandles ==
    { Handle(FALSE, TRUE, NoNumber, Field(e, v)) : e \in BOOLEAN, v \in Names }

\* A handle for which both type predicates answer true.
BothHandles ==
    { Handle(TRUE, TRUE, Field(e1, v1), Field(e2, v2)) :
        e1 \in BOOLEAN, v1 \in {0, 1}, e2 \in BOOLEAN, v2 \in {"theWorld", "otherWorld"} }

\* A handle of some other class (or a null handle): neither predicate holds.
UnknownHandles ==
    { Handle(FALSE, FALSE, Field(e1, v1), Field(e2, v2)) :
        e1 \in BOOLEAN, v1 \in {1}, e2 \in BOOLEAN, v2 \in {"theWorld"} }

Handles == SmallNumberHandles \cup NumberWorldHandles \cup BothHandles \cup UnknownHandles

X_SmallNumber_IsA(instanceName) == instanceName.isSmallNumber
X_NumberWorld_IsA(instanceName) == instanceName.isNumberWorld

\* Instances of the association class itself (arguments of Get/Create/...).
AssocInstances == {"ref0", "ref1"}

(***************************************************************************)
(* Context::Post has two overloads: Post(MI_Result) and Post(instance).    *)
(* A posted result is the record [result |-> code]; a posted instance is   *)
(* the instance, a record with its class and its key attribute.            *)
(***************************************************************************)
PostResult(r) == [result |-> r]
PostInstance(inst) == inst

\* The instances the two resolvers construct.
GetNumberWorld(ns) == [class |-> "X_NumberWorld", Name |-> "theWorld"]
FillNumberByKey(key) == [class |-> "X_SmallNumber", Number |-> key]

(***************************************************************************)
(* The match conditions of the two resolvers.                              *)
(***************************************************************************)
\* String::GetSize() == 0
GetSize(s) == Len(s)

\* Mutants of SmallNumberMatch: the match confined to the generation domain;
\* the parity test left out; the role names of the other direction.
SmallNumberMatch_InDomain(num, role, resultRole) ==
    /\ num % 2 = 1
    /\ num < DomainEnd
    /\ (GetSize(role) = 0 \/ role = "number")
    /\ (GetSize(resultRole) = 0 \/ resultRole = "world")

SmallNumberMatch_NoParity(num, role, resultRole) ==
    /\ (GetSize(role) = 0 \/ role = "number")
    /\ (GetSize(resultRole) = 0 \/ resultRole = "world")

SmallNumberMatch_RolesSwapped(num, role, resultRole) ==
    /\ num % 2 = 1
    /\ (GetSize(role) = 0 \/ role = "world")
    /\ (GetSize(resultRole) = 0 \/ resultRole = "number")

SmallNumberMatch(num, role, resultRole) ==
    /\ num % 2 = 1
    /\ (GetSize(role) = 0 \/ role = "number")
    /\ (GetSize(resultRole) = 0 \/ resultRole = "world")

\* Mutants of NumberWorldMatch: a comparison of the name that ignores letter
\* case; the role names of the other direction.
NumberWorldMatch_IgnoreCase(name, role, resultRole) ==
    /\ name \in {"theWorld", "theworld", "TheWorld"}
    /\ (GetSize(role) = 0 \/ role = "world")
    /\ (GetSize(resultRole) = 0 \/ resultRole = "number")

NumberWorldMatch_RolesSwapped(name, role, resultRole) ==
    /\ name = "theWorld"
    /\ (GetSize(role) = 0 \/ role = "number")
    /\ (GetSize(resultRole) = 0 \/ resultRole = "world")

NumberWorldMatch(name, role, resultRole) ==
    /\ name = "theWorld"
    /\ (GetSize(role) = 0 \/ role = "world")
    /\ (GetSize(resultRole) = 0 \/ resultRole = "number")

\* No provider call in progress.
NoCall ==
    /\ call = [op |-> "none"]
    /\ pc = "idle"
    /\ resolver = "none"
    /\ posts = <<>>
    /\ i = 0

\* The script has not been run.
NoScript ==
    /\ env = "none"
    /\ running = FALSE
    /\ arg = "none"
    /\ issued = <<>>
    /\ status = 0
    /\ nStarts = 0

\* The provider as constructed: m_Module(module).
Init ==
    /\ NoCall
    /\ m_Module = "module"
    /\ ctx = <<>>
    /\ NoScript

(***************************************************************************)
(* The host invokes an operation with a fresh Context; a handler posts;    *)
(* a handler returns.                                                      *)
(***************************************************************************)
Idle == pc = "idle"

Invoke(op, args) == call' = [op |-> op, args |-> args]

Post(p) == posts' = Append(posts, p)

(***************************************************************************)
(* The operations that are not implemented: one Post each.                 *)
(***************************************************************************)
EnumerateInstances ==
    /\ Idle
    /\ \E ns \in NameSpaces, ps \in PropertySets, ko \in BOOLEAN, f \in Filters :
        /\ Invoke("EnumerateInstances",
                  [nameSpace |-> ns, propertySet |-> ps, keysOnly |-> ko, filter |-> f])
        /\ Post(PostResult(MI_RESULT_NOT_SUPPORTED))
        /\ pc' = "done"
        /\ UNCHANGED <<resolver, i, m_Module, ctx, scriptVars>>

GetInstance ==
    /\ Idle
    /\ \E ns \in NameSpaces, ref \in AssocInstances, ps \in PropertySets :
        /\ Invoke("GetInstance",
                  [nameSpace |-> ns, instance_ref |-> ref, propertySet |-> ps])
        /\ Post(PostResult(MI_RESULT_NOT_SUPPORTED))
        /\ pc' = "done"
        /\ UNCHANGED <<resolver, i, m_Module, ctx, scriptVars>>

CreateInstance ==
    /\ Idle
    /\ \E ns \in NameSpaces, inst \in AssocInstances :
        /\ Invoke("CreateInstance", [nameSpace |-> ns, new_instance |-> inst])
        /\ Post(PostResult(MI_RESULT_NOT_SUPPORTED))
        /\ pc' = "done"
        /\ UNCHANGED <<resolver, i, m_Module, ctx, scriptVars>>

ModifyInstance ==
    /\ Idle
    /\ \E ns \in NameSpaces, inst \in AssocInstances, ps \in PropertySets :
        /\ Invoke("ModifyInstance",
                  [nameSpace |-> ns, new_instance |-> inst, propertySet |-> ps])
        /\ Post(PostResult(MI_RESULT_NOT_SUPPORTED))
        /\ pc' = "done"
        /\ UNCHANGED <<resolver, i, m_Module, ctx, scriptVars>>

\* Mutant of DeleteInstance: reports success.
DeleteInstance_PostsOK ==
    /\ Idle
    /\ \E ns \in NameSpaces, ref \in AssocInstances :
        /\ Invoke("DeleteInstance", [nameSpace |-> ns, instance_ref |-> ref])
        /\ Post(PostResult(MI_RESULT_OK))
        /\ pc' = "done"
        /\ UNCHANGED <<resolver, i, m_Module, ctx, scriptVars>>

DeleteInstance ==
    /\ Idle
    /\ \E ns \in NameSpaces, ref \in AssocInstances :
        /\ Invoke("DeleteInstance", [nameSpace |-> ns, instance_ref |-> ref])
        /\ Post(PostResult(MI_RESULT_NOT_SUPPORTED))
        /\ pc' = "done"
        /\ UNCHANGED <<resolver, i, m_Module, ctx, scriptVars>>

ReferenceInstances ==
    /\ Idle
    /\ \E ns \in NameSpaces, h \in Handles, role \in Roles,
       ps \in PropertySets, ko \in BOOLEAN, f \in Filters :
        /\ Invoke("ReferenceInstances",
                  [nameSpace |-> ns, instanceName |-> h, role |-> role,
                   propertySet |-> ps, keysOnly |-> ko, filter |-> f])
        /\ Post(PostResult(MI_RESULT_NOT_SUPPORTED))
        /\ pc' = "done"
        /\ UNCHANGED <<resolver, i, m_Module, ctx, scriptVars>>

Load ==
    /\ Idle
    /\ Invoke("Load", [context |-> "context"])
    /\ Post(PostResult(MI_RESULT_OK))
    /\ pc' = "done"
    /\ UNCHANGED <<resolver, i, m_Module, ctx, scriptVars>>

\* Mutant of Unload: the provider lets go of its module.
Unload_ClearsModule ==
    /\ Idle
    /\ Invoke("Unload", [context |-> "context"])
    /\ Post(PostResult(MI_RESULT_OK))
    /\ pc' = "done"
    /\ m_Module' = "NULL"
    /\ UNCHANGED <<resolver, i, ctx, scriptVars>>

Unload ==
    /\ Idle
    /\ Invoke("Unload", [context |-> "context"])
    /\ Post(PostResult(MI_RESULT_OK))
    /\ pc' = "done"
    /\ UNCHANGED <<resolver, i, m_Module, ctx, scriptVars>>

(***************************************************************************)
(* AssociatorInstances: the type tests, then one of the two resolvers.     *)
(***************************************************************************)
\* Mutant of Dispatch: the two type tests in the other order.
Dispatch_NumberWorldFirst(instanceName) ==
    IF X_NumberWorld_IsA(instanceName) THEN "AssocOfNumberWorld"
    ELSE IF X_SmallNumber_IsA(instanceName) THEN "AssocOfSmallNumber"
    ELSE "none"

\* Mutant of Dispatch: the second type test left out.
Dispatch_NoSecondTest(instanceName) ==
    IF X_SmallNumber_IsA(instanceName) THEN "AssocOfSmallNumber"
    ELSE "AssocOfNumberWorld"

Dispatch(instanceName) ==
    IF X_SmallNumber_IsA(instanceName) THEN "AssocOfSmallNumber"
    ELSE IF X_NumberWorld_IsA(instanceName) THEN "AssocOfNumberWorld"
    ELSE "none"

\* The body of AssociatorInstances for given arguments.
AssociatorInstances_Call(h, role, resultRole, rest) ==
        /\ Invoke("AssociatorInstances",
                  [nameSpace |-> rest.nameSpace, instanceName |-> h,
                   resultClass |-> rest.resultClass, role |-> role,
                   resultRole |-> resultRole, propertySet |-> rest.propertySet,
                   keysOnly |-> rest.keysOnly, filter |-> rest.filter])
        /\ resolver' = Dispatch(h)
        /\ IF Dispatch(h) = "none"
           THEN \* unknown type
                /\ Post(PostResult(MI_RESULT_FAILED))
                /\ pc' = "done"
           ELSE /\ pc' = "key"
                /\ UNCHANGED posts
        /\ UNCHANGED <<i, m_Module, ctx, scriptVars>>

AssociatorInstances ==
    /\ Idle
    /\ \E h \in Handles, role \in Roles, resultRole \in Roles, rest \in RestArgs :
        AssociatorInstances_Call(h, role, resultRole, rest)

\* Mutant of AssocOfSmallNumber_Key: the return after the Post left out.
AssocOfSmallNumber_Key_NoReturn ==
    /\ resolver = "AssocOfSmallNumber"
    /\ pc = "key"
    /\ IF ~call.args.instanceName.Number.exists
       THEN Post(PostResult(MI_RESULT_FAILED))
       ELSE UNCHANGED posts
    /\ pc' = "match"
    /\ UNCHANGED <<call, resolver, i, m_Module, ctx, scriptVars>>

\* if (!instanceName.Number().exists) { context.Post(MI_RESULT_FAILED); return; }
AssocOfSmallNumber_Key ==
    /\ resolver = "AssocOfSmallNumber"
    /\ pc = "key"
    /\ IF ~call.args.instanceName.Number.exists
       THEN /\ Post(PostResult(MI_RESULT_FAILED))
            /\ pc' = "done"
       ELSE /\ pc' = "match"
            /\ UNCHANGED posts
    /\ UNCHANGED <<call, resolver, i, m_Module, ctx, scriptVars>>

\* Mutant of AssocOfSmallNumber_Match: resultClass checked against the class
\* of the instance to post.
AssocOfSmallNumber_Match_ChecksResultClass ==
    /\ resolver = "AssocOfSmallNumber"
    /\ pc = "match"
    /\ IF /\ SmallNumberMatch(call.args.instanceName.Number.value,
                              call.args.role, call.args.resultRole)
          /\ call.args.resultClass \in {"", "X_NumberWorld"}
       THEN Post(PostInstance(GetNumberWorld("")))
       ELSE UNCHANGED posts
    /\ pc' = "ok"
    /\ UNCHANGED <<call, resolver, i, m_Module, ctx, scriptVars>>

\* if (num % 2 == 1 && ...) { context.Post(GetNumberWorld(MI_T(""))); }
AssocOfSmallNumber_Match ==
    /\ resolver = "AssocOfSmallNumber"
    /\ pc = "match"
    /\ IF SmallNumberMatch(call.args.instanceName.Number.value,
                           call.args.role, call.args.resultRole)
       THEN Post(PostInstance(GetNumberWorld("")))
       ELSE UNCHANGED posts
    /\ pc' = "ok"
    /\ UNCHANGED <<call, resolver, i, m_Module, ctx, scriptVars>>

\* context.Post(MI_RESULT_OK);
AssocOfSmallNumber_OK ==
    /\ resolver = "AssocOfSmallNumber"
    /\ pc = "ok"
    /\ Post(PostResult(MI_RESULT_OK))
    /\ pc' = "done"
    /\ UNCHANGED <<call, resolver, i, m_Module, ctx, scriptVars>>

\* Mutant of AssocOfNumberWorld_Key: the presence test inverted.
AssocOfNumberWorld_Key_Inverted ==
    /\ resolver = "AssocOfNumberWorld"
    /\ pc = "key"
    /\ IF call.args.instanceName.Name.exists
       THEN /\ Post(PostResult(MI_RESULT_FAILED))
            /\ pc' = "done"
       ELSE /\ pc' = "match"
            /\ UNCHANGED posts
    /\ UNCHANGED <<call, resolver, i, m_Module, ctx, scriptVars>>

\* if (!instanceName.Name().exists) { context.Post(MI_RESULT_FAILED); return; }
AssocOfNumberWorld_Key ==
    /\ resolver = "AssocOfNumberWorld"
    /\ pc = "key"
    /\ IF ~call.args.instanceName.Name.exists
       THEN /\ Post(PostResult(MI_RESULT_FAILED))
            /\ pc' = "done"
       ELSE /\ pc' = "match"
            /\ UNCHANGED posts
    /\ UNCHANGED <<call, resolver, i, m_Module, ctx, scriptVars>>

\* if (name == MI_T("theWorld") && ...) { for ( int i = 0; ...
AssocOfNumberWorld_Match ==
    /\ resolver = "AssocOfNumberWorld"
    /\ pc = "match"
    /\ IF NumberWorldMatch(call.args.instanceName.Name.value,
                           call.args.role, call.args.resultRole)
       THEN pc' = "loop"
       ELSE pc' = "ok"
    /\ UNCHANGED <<call, resolver, posts, i, m_Module, ctx, scriptVars>>

\* Mutant of LoopCond: a digit of the bound dropped.
LoopCond_ShortDomain(n) == n < 1000

\* i < 10000
LoopCond(n) == n < DomainEnd

\* Mutant of Skip: nothing skipped.
Skip_Never(n) == FALSE

\* Mutant of Skip: the odd keys skipped instead of the even ones.
Skip_Odd(n) == n % 2 = 1

\* if ( i % 2 == 0 ) continue;
Skip(n) == n % 2 = 0

\* The value of i with which the for statement ends: counting up from 0,
\* the first value that fails the loop condition.
LoopEnd ==
    CHOOSE n \in 0 .. DomainEnd + 1 :
        ~LoopCond(n) /\ \A m \in 0 .. n - 1 : LoopCond(m)

\* What the for statement posts: i runs through 0, 1, ..., LoopEnd - 1 in
\* this order and every i that is not skipped is posted as FillNumberByKey(i).
LoopPosts ==
    LET visited == [k \in 1 .. LoopEnd |-> k - 1]
        kept == SelectSeq(visited, LAMBDA n : ~Skip(n))
    IN  [k \in 1 .. Len(kept) |-> PostInstance(FillNumberByKey(kept[k]))]

\* The for statement, run from i = 0 until its condition fails.
AssocOfNumberWorld_Loop ==
    /\ resolver = "AssocOfNumberWorld"
    /\ pc = "loop"
    /\ posts' = posts \o LoopPosts
    /\ i' = LoopEnd
    /\ pc' = "ok"
    /\ UNCHANGED <<call, resolver, m_Module, ctx, scriptVars>>

\* Mutant of AssocOfNumberWorld_OK: the result code of the missing-key path.
AssocOfNumberWorld_OK_PostsFailed ==
    /\ resolver = "AssocOfNumberWorld"
    /\ pc = "ok"
    /\ Post(PostResult(MI_RESULT_FAILED))
    /\ pc' = "done"
    /\ UNCHANGED <<call, resolver, i, m_Module, ctx, scriptVars>>

\* context.Post(MI_RESULT_OK);
AssocOfNumberWorld_OK ==
    /\ resolver = "AssocOfNumberWorld"
    /\ pc = "ok"
    /\ Post(PostResult(MI_RESULT_OK))
    /\ pc' = "done"
    /\ UNCHANGED <<call, resolver, i, m_Module, ctx, scriptVars>>

\* The handler has returned; the host drops the call and its Context.
Return ==
    /\ pc = "done"
    /\ call' = [op |-> "none"]
    /\ pc' = "idle"
    /\ resolver' = "none"
    /\ posts' = <<>>
    /\ i' = 0
    /\ UNCHANGED <<m_Module, ctx, scriptVars>>

Next ==
    \/ EnumerateInstances
    \/ GetInstance
    \/ CreateInstance
    \/ ModifyInstance
    \/ DeleteInstance
    \/ ReferenceInstances
    \/ Load
    \/ Unload
    \/ AssociatorInstances
    \/ AssocOfSmallNumber_Key
    \/ AssocOfSmallNumber_Match
    \/ AssocOfSmallNumber_OK
    \/ AssocOfNumberWorld_Key
    \/ AssocOfNumberWorld_Match
    \/ AssocOfNumberWorld_Loop
    \/ AssocOfNumberWorld_OK
    \/ Return

Spec == Init /\ [][Next]_vars

(***************************************************************************)
(* LoopSpec: the for statement of AssocOfNumberWorld pass by pass.         *)
(***************************************************************************)
\* for ( int i = 0; ...
AssocOfNumberWorld_ForInit ==
    /\ resolver = "AssocOfNumberWorld"
    /\ pc = "loop"
    /\ i' = 0
    /\ pc' = "iter"
    /\ UNCHANGED <<call, resolver, posts, m_Module, ctx, scriptVars>>

\* Mutant of AssocOfNumberWorld_Iter: continue goes back to the test without
\* the increment.
AssocOfNumberWorld_Iter_ContinueSkipsIncrement ==
    /\ resolver = "AssocOfNumberWorld"
    /\ pc = "iter"
    /\ IF LoopCond(i)
       THEN /\ IF Skip(i)
               THEN UNCHANGED <<posts, i>>
               ELSE /\ Post(PostInstance(FillNumberByKey(i)))
                    /\ i' = i + 1
            /\ UNCHANGED pc
       ELSE /\ pc' = "ok"
            /\ UNCHANGED <<posts, i>>
    /\ UNCHANGED <<call, resolver, m_Module, ctx, scriptVars>>

\* ... i < 10000; i++ ) { if ( i % 2 == 0 ) continue; context.Post(FillNumberByKey(i)); }
\* One pass: the test, the body, the increment.
AssocOfNumberWorld_Iter ==
    /\ resolver = "AssocOfNumberWorld"
    /\ pc = "iter"
    /\ IF LoopCond(i)
       THEN /\ IF Skip(i)
               THEN UNCHANGED posts
               ELSE Post(PostInstance(FillNumberByKey(i)))
            /\ i' = i + 1
            /\ UNCHANGED pc
       ELSE /\ pc' = "ok"
            /\ UNCHANGED <<posts, i>>
    /\ UNCHANGED <<call, resolver, m_Module, ctx, scriptVars>>

\* AssociatorInstances on a smaller set of inputs: the arguments no resolver
\* reads at their base values, resultRole absent or "world".
LoopResultRoles == {"", "world"}

AssociatorInstances_Base ==
    /\ AssociatorInstances
    /\ \A f \in DOMAIN BaseRest : call'.args[f] = BaseRest[f]
    /\ call'.args.resultRole \in LoopResultRoles

\* The steps a handler takes once it is called; the handlers are
\* synchronous code, so a handler that can take a step takes it.
HandlerStep ==
    \/ AssocOfSmallNumber_Key
    \/ AssocOfSmallNumber_Match
    \/ AssocOfSmallNumber_OK
    \/ AssocOfNumberWorld_Key
    \/ AssocOfNumberWorld_Match
    \/ AssocOfNumberWorld_ForInit
    \/ AssocOfNumberWorld_Iter
    \/ AssocOfNumberWorld_OK

LoopNext ==
    \/ EnumerateInstances
    \/ GetInstance
    \/ CreateInstance
    \/ ModifyInstance
    \/ DeleteInstance
    \/ ReferenceInstances
    \/ Load
    \/ Unload
    \/ AssociatorInstances_Base
    \/ AssocOfSmallNumber_Key
    \/ AssocOfSmallNumber_Match
    \/ AssocOfSmallNumber_OK
    \/ AssocOfNumberWorld_Key
    \/ AssocOfNumberWorld_Match
    \/ AssocOfNumberWorld_ForInit
    \/ AssocOfNumberWorld_Iter
    \/ AssocOfNumberWorld_OK
    \/ Return

LoopSpec == Init /\ [][LoopNext]_vars /\ WF_vars(HandlerStep)

(***************************************************************************)
(* ConcSpec: several calls in progress at once, each with its own Context. *)
(* call, pc, resolver, posts and i belong to the call whose thread is      *)
(* running; ctx holds the same five values for every other call.  The      *)
(* handlers' steps are those of Spec; Switch hands the processor to        *)
(* another call between two statements.                                    *)
(***************************************************************************)
\* How many calls can be in progress at once.
NumContexts == 2

Others == 1 .. NumContexts - 1

IdleContext ==
    [call |-> [op |-> "none"], pc |-> "idle", resolver |-> "none",
     posts |-> <<>>, i |-> 0]

RunningContext ==
    [call |-> call, pc |-> pc, resolver |-> resolver, posts |-> posts, i |-> i]

ConcInit ==
    /\ NoCall
    /\ m_Module = "module"
    /\ ctx = [c \in Others |-> IdleContext]
    /\ NoScript

\* The source instances of the calls of ConcSpec.
ConcHandles ==
    { Handle(TRUE, FALSE, Field(TRUE, 1), NoName),
      Handle(TRUE, FALSE, Field(TRUE, 2), NoName),
      Handle(TRUE, FALSE, NoNumber, NoName),
      Handle(FALSE, TRUE, NoNumber, Field(TRUE, "theWorld")),
      Handle(FALSE, TRUE, NoNumber, Field(TRUE, "otherWorld")),
      Handle(FALSE, FALSE, Field(TRUE, 1), Field(TRUE, "theWorld")) }

Conc_AssociatorInstances ==
    /\ Idle
    /\ \E h \in ConcHandles : AssociatorInstances_Call(h, "", "", BaseRest)

\* Mutant of Switch: the calls post on one and the same Context.
Switch_SharesPosts(c) ==
    /\ call' = ctx[c].call
    /\ pc' = ctx[c].pc
    /\ resolver' = ctx[c].resolver
    /\ i' = ctx[c].i
    /\ ctx' = [ctx EXCEPT ![c] = RunningContext]
    /\ UNCHANGED <<posts, m_Module, scriptVars>>

\* The thread of call c gets the processor; the running call waits.  Every
\* call keeps its own Context (the context parameter) and its own locals.
Switch(c) ==
    /\ call' = ctx[c].call
    /\ pc' = ctx[c].pc
    /\ resolver' = ctx[c].resolver
    /\ posts' = ctx[c].posts
    /\ i' = ctx[c].i
    /\ ctx' = [ctx EXCEPT ![c] = RunningContext]
    /\ UNCHANGED <<m_Module, scriptVars>>

ConcNext ==
    \/ DeleteInstance
    \/ Load
    \/ Unload
    \/ Conc_AssociatorInstances
    \/ AssocOfSmallNumber_Key
    \/ AssocOfSmallNumber_Match
    \/ AssocOfSmallNumber_OK
    \/ AssocOfNumberWorld_Key
    \/ AssocOfNumberWorld_Match
    \/ AssocOfNumberWorld_Loop
    \/ AssocOfNumberWorld_OK
    \/ Return
    \/ \E c \in Others : Switch(c)

ConcSpec == ConcInit /\ [][ConcNext]_vars

(***************************************************************************)
(* ScriptSpec: the service control script (src/unnamed/part_000).  One     *)
(* run of the script is one step.  What a start, stop or restart command   *)
(* does to the server is not the script's to decide: after such a command  *)
(* the server may be running or not, whatever was asked.                   *)
(***************************************************************************)
\* Cap on nStarts.
MaxStarts == 2

\* OMI_BIN=/opt/omi/bin/omiserver
OMI_BIN == "/opt/omi/bin/omiserver"

\* The marker file of the header comment, tested by [ -f ... ].
MarkerFile == "/etc/.omi_disable_service_control"

\* What the script finds on the platform: id -u, the marker file, the
\* executables and files it tests, pidof systemd, the output of lsb_release.
\* lsb_release gives a distributor and a release only where it exists.
Envs ==
    { e \in [root : BOOLEAN, marker : BOOLEAN, lsb_release : BOOLEAN,
             debian : BOOLEAN, release8 : BOOLEAN, systemd : BOOLEAN,
             systemctl : BOOLEAN, initctl : BOOLEAN, omid_conf : BOOLEAN,
             sbin_service : BOOLEAN, usr_sbin_service : BOOLEAN,
             invoke_rc_d : BOOLEAN] :
        /\ ~e.lsb_release => (~e.debian /\ ~e.release8)
        /\ ~e.debian => ~e.release8 }

Command(prog, verb) == [prog |-> prog, verb |-> verb]

\* The outcome of a function of the script: the commands it issued, whether
\* the server runs afterwards, the status, and whether the script exited.
\* The status of an issued command is not modelled: it is taken as 0.
Result(cmds, run, st, ex) ==
    [issued |-> cmds, running |-> run, status |-> st, exit |-> ex]

\* [ `id -u` -ne 0 ] fails: TRUE when the script may go on.
verify_privileges(e) == e.root

\* Returns 1 if 'omi' server is running, 0 otherwise.
is_omi_running(run) == IF run THEN 1 ELSE 0

\* The if/elif chain that picks the service manager; <<>> when none is
\* recognized.
ServiceManager(e, verb) ==
    IF e.systemd THEN <<Command("/bin/systemctl", verb)>>
    ELSE IF e.initctl /\ e.omid_conf THEN <<Command("/sbin/initctl", verb)>>
    ELSE IF e.systemctl THEN <<Command("/bin/systemctl", verb)>>
    ELSE IF e.sbin_service THEN <<Command("/sbin/service", verb)>>
    ELSE IF e.usr_sbin_service THEN <<Command("/usr/sbin/service", verb)>>
    ELSE IF e.invoke_rc_d THEN <<Command("/usr/sbin/invoke-rc.d", verb)>>
    ELSE <<>>

\* Mutant of start_omi: the test of is_omi_running left out.
start_omi_NoRunningTest(e, run, out) ==
    IF ~verify_privileges(e) THEN Result(<<>>, run, 1, TRUE)
    ELSE IF e.marker THEN Result(<<Command(OMI_BIN, "-d")>>, out, 0, FALSE)
    ELSE IF ServiceManager(e, "start") = <<>> THEN Result(<<>>, run, 1, TRUE)
    ELSE Result(ServiceManager(e, "start"), out, 0, FALSE)

\* start_omi; out: whether the server runs after the start command.
start_omi(e, run, out) ==
    IF ~verify_privileges(e) THEN Result(<<>>, run, 1, TRUE)
    ELSE IF is_omi_running(run) # 0 THEN Result(<<>>, run, 0, FALSE)
    ELSE IF e.marker THEN Result(<<Command(OMI_BIN, "-d")>>, out, 0, FALSE)
    ELSE IF ServiceManager(e, "start") = <<>> THEN Result(<<>>, run, 1, TRUE)
    ELSE Result(ServiceManager(e, "start"), out, 0, FALSE)

\* stop_omi; out: whether the server runs after the stop command.
stop_omi(e, run, out) ==
    IF ~verify_privileges(e) THEN Result(<<>>, run, 1, TRUE)
    ELSE IF is_omi_running(run) # 0
    THEN IF e.marker THEN Result(<<Command(OMI_BIN, "-s")>>, out, 0, FALSE)
         ELSE IF ServiceManager(e, "stop") = <<>> THEN Result(<<>>, run, 1, TRUE)
         ELSE Result(ServiceManager(e, "stop"), out, 0, FALSE)
    ELSE Result(<<>>, run, 0, FALSE)

\* Debian 8 and later special handling.
Debian8(e) == e.lsb_release /\ e.systemctl /\ e.debian /\ e.release8

\* restart_omi; out1, out2: whether the server runs after the first and
\* after the second command issued.
restart_omi(e, run, out1, out2) ==
    IF Debian8(e) THEN Result(<<Command("/bin/systemctl", "restart")>>, out1, 0, FALSE)
    ELSE IF ~verify_privileges(e) THEN Result(<<>>, run, 1, TRUE)
    ELSE IF is_omi_running(run) = 0 THEN start_omi(e, run, out1)
    ELSE IF e.marker
    THEN LET stopped == stop_omi(e, run, out1)
             started == start_omi(e, stopped.running, out2)
         IN  IF stopped.exit THEN stopped
             ELSE IF started.exit
                  THEN Result(stopped.issued, started.running, started.status, TRUE)
                  ELSE Result(stopped.issued \o started.issued, started.running, 0, FALSE)
    ELSE IF ServiceManager(e, "restart") = <<>> THEN Result(<<>>, run, 1, TRUE)
    ELSE Result(ServiceManager(e, "restart"), out1, 0, FALSE)

IsStart(cmd) == cmd.verb \in {"start", "-d"}
IsStop(cmd) == cmd.verb \in {"stop", "-s"}

\* The start commands since the last stop command, after cmds are issued
\* on top of n; a restart command is neither.
RECURSIVE StartsAfter(_, _)
StartsAfter(cmds, n) ==
    IF cmds = <<>> THEN n
    ELSE StartsAfter(Tail(cmds),
                     IF IsStop(Head(cmds)) THEN 0
                     ELSE IF IsStart(Head(cmds)) THEN n + 1
                     ELSE n)

ScriptInit ==
    /\ NoCall
    /\ m_Module = "module"
    /\ ctx = <<>>
    /\ env \in Envs
    /\ running \in BOOLEAN
    /\ arg = "none"
    /\ issued = <<>>
    /\ status = 0
    /\ nStarts = 0

\* One run of the script with argument a and outcome r.
Run(a, r) ==
    /\ arg' = a
    /\ issued' = r.issued
    /\ running' = r.running
    /\ status' = r.status
    /\ nStarts' = StartsAfter(r.issued, nStarts)
    /\ nStarts' <= MaxStarts
    /\ UNCHANGED <<env, callVars, m_Module, ctx>>

\* functions) ;;
Script_functions == Run("functions", Result(<<>>, running, 0, FALSE))

\* is-running) is_omi_running; exit $?
Script_is_running ==
    Run("is-running",
        IF ~verify_privileges(env) THEN Result(<<>>, running, 1, TRUE)
        ELSE Result(<<>>, running, is_omi_running(running), TRUE))

\* start) start_omi
Script_start ==
    \E out \in BOOLEAN : Run("start", start_omi(env, running, out))

\* stop) stop_omi
Script_stop ==
    \E out \in BOOLEAN : Run("stop", stop_omi(env, running, out))

\* restart) restart_omi
Script_restart ==
    \E out1 \in BOOLEAN, out2 \in BOOLEAN :
        Run("restart", restart_omi(env, running, out1, out2))

\* reload) restart_omi
Script_reload ==
    \E out1 \in BOOLEAN, out2 \in BOOLEAN :
        Run("reload", restart_omi(env, running, out1, out2))

\* *) echo "Unknown parameter : $1"; exit 1
Script_unknown == Run("unknown", Result(<<>>, running, 1, TRUE))

ScriptNext ==
    \/ Script_functions
    \/ Script_is_running
    \/ Script_start
    \/ Script_stop
    \/ Script_restart
    \/ Script_reload
    \/ Script_unknown

ScriptSpec == ScriptInit /\ [][ScriptNext]_vars

(***************************************************************************)
(* Vocabulary of the properties.                                           *)
(***************************************************************************)
Completed == pc = "done"

IsResult(p) == "result" \in DOMAIN p
IsInstance(p) == "class" \in DOMAIN p

OK == [result |-> MI_RESULT_OK]
Failed == [result |-> MI_RESULT_FAILED]
NotSupported == [result |-> MI_RESULT_NOT_SUPPORTED]

\* The EntityB singleton, and the EntityA instance with key k.
TheWorld == [class |-> "X_NumberWorld", Name |-> "theWorld"]
SmallNumber(k) == [class |-> "X_SmallNumber", Number |-> k]

\* The instances posted so far, without the result.
PostedInstances == SelectSeq(posts, IsInstance)

\* The variant of a handle: the first type predicate it satisfies.
IsEntityA(h) == h.isSmallNumber
IsEntityB(h) == h.isNumberWorld /\ ~h.isSmallNumber

InAssociatorCall == call.op = "AssociatorInstances"
Source == call.args.instanceName

\* A call of AssociatorInstances on an EntityA instance whose key is present.
FromSmallNumber ==
    /\ InAssociatorCall
    /\ IsEntityA(Source)
    /\ Source.Number.exists

\* A call of AssociatorInstances on an EntityB instance whose key is present.
FromNumberWorld ==
    /\ InAssociatorCall
    /\ IsEntityB(Source)
    /\ Source.Name.exists

NoRoles == call.args.role = "" /\ call.args.resultRole = ""

\* The odd integers of [0,10000), ascending: 1, 3, ..., 9999.
OddKeys == [k \in 1 .. 5000 |-> 2 * k - 1]

(***************************************************************************)
(* C1.  On the Context of every call, of every operation and with every    *)
(* argument, the posts are zero or more instances followed by exactly one  *)
(* result: while the handler runs no result has been posted yet, and when  *)
(* it has returned the last post is the only result.                       *)
(***************************************************************************)
C1_PostProtocol ==
    /\ ~Completed => \A k \in 1 .. Len(posts) : IsInstance(posts[k])
    /\ Completed =>
        /\ Len(posts) >= 1
        /\ IsResult(posts[Len(posts)])
        /\ \A k \in 1 .. Len(posts) - 1 : IsInstance(posts[k])

C1_Witness ==
    /\ Completed
    /\ InAssociatorCall
    /\ Len(posts) > 2
    /\ IsResult(posts[Len(posts)])

(***************************************************************************)
(* C2.  AssociatorInstances on an EntityA instance whose Number is present *)
(* and odd, with empty role and resultRole, posts exactly one instance,    *)
(* the EntityB singleton named "theWorld", and then MI_RESULT_OK.          *)
(***************************************************************************)
C2_OddNumberPostsTheWorld ==
    (Completed /\ FromSmallNumber /\ Source.Number.value % 2 = 1 /\ NoRoles)
        => posts = <<TheWorld, OK>>

C2_Witness ==
    /\ Completed /\ FromSmallNumber /\ NoRoles
    /\ Source.Number.value = 10001
    /\ Len(posts) = 2

(***************************************************************************)
(* C3.  AssociatorInstances on an EntityA instance whose Number is present *)
(* and even (0 included) posts no instance and then MI_RESULT_OK, whatever *)
(* role and resultRole are.                                                *)
(***************************************************************************)
C3_EvenNumberPostsNothing ==
    (FromSmallNumber /\ Source.Number.value % 2 = 0)
        => /\ posts \in {<<>>, <<OK>>}
           /\ Completed => posts = <<OK>>

C3_Witness ==
    /\ Completed /\ FromSmallNumber
    /\ Source.Number.value = 0
    /\ call.args.role = "number" /\ call.args.resultRole = "world"
    /\ posts = <<OK>>

(***************************************************************************)
(* C4.  AssociatorInstances on the EntityB instance named "theWorld", with *)
(* empty role and resultRole, posts exactly 5000 EntityA instances, one    *)
(* for every odd integer of [0,10000), each once, in strictly ascending    *)
(* order of the key (first 1, last 9999), and then MI_RESULT_OK.  Before   *)
(* the loop has run nothing is posted.                                     *)
(***************************************************************************)
C4_TheWorldPostsOddNumbers ==
    (FromNumberWorld /\ Source.Name.value = "theWorld" /\ NoRoles)
        => /\ pc \in {"key", "match", "loop"} => posts = <<>>
           /\ pc = "ok" => Len(posts) = 5000
           /\ Completed =>
                /\ Len(posts) = 5001
                /\ posts[5001] = OK
                /\ Len(PostedInstances) = 5000
                /\ \A k \in 1 .. 5000 : posts[k].class = "X_SmallNumber"
                /\ { posts[k].Number : k \in 1 .. 5000 }
                       = { n \in 0 .. 9999 : n % 2 = 1 }
                /\ \A k \in 1 .. 4999 : posts[k].Number < posts[k + 1].Number
                /\ posts[1].Number = 1
                /\ posts[5000].Number = 9999

C4_Witness ==
    /\ Completed /\ FromNumberWorld /\ NoRoles
    /\ Source.Name.value = "theWorld"
    /\ Len(posts) = 5001

(***************************************************************************)
(* C5.  AssociatorInstances on an EntityB instance whose Name is present   *)
(* and differs from "theWorld" (also when only the letter case differs)    *)
(* posts no instance and then MI_RESULT_OK, not MI_RESULT_FAILED, whatever *)
(* role and resultRole are.                                                *)
(***************************************************************************)
C5_OtherNamePostsNothing ==
    (FromNumberWorld /\ Source.Name.value # "theWorld")
        => /\ posts \in {<<>>, <<OK>>}
           /\ Completed => posts = <<OK>>

C5_Witness ==
    /\ Completed /\ FromNumberWorld
    /\ Source.Name.value = "theworld"
    /\ NoRoles
    /\ posts = <<OK>>

(***************************************************************************)
(* C6.  AssociatorInstances on a source instance whose key is absent       *)
(* (EntityA without Number, EntityB without Name) posts MI_RESULT_FAILED   *)
(* and no instance, whatever the value field of the absent key, role,      *)
(* resultRole and the other arguments are.                                 *)
(***************************************************************************)
KeyAbsent ==
    /\ InAssociatorCall
    /\ \/ IsEntityA(Source) /\ ~Source.Number.exists
       \/ IsEntityB(Source) /\ ~Source.Name.exists

C6_AbsentKeyFails ==
    KeyAbsent
        => /\ posts \in {<<>>, <<Failed>>}
           /\ Completed => posts = <<Failed>>

C6_Witness ==
    /\ Completed /\ KeyAbsent
    /\ IsEntityB(Source)
    /\ Source.Name.value = "theWorld"
    /\ NoRoles
    /\ posts = <<Failed>>

(***************************************************************************)
(* C7.  In the EntityA direction with Number present and odd, the          *)
(* singleton is posted if and only if role is "" or "number" and           *)
(* resultRole is "" or "world"; with any other role or resultRole no       *)
(* instance is posted.  The result is MI_RESULT_OK in both cases.          *)
(***************************************************************************)
C7_SmallNumberRoleFilter ==
    (Completed /\ FromSmallNumber /\ Source.Number.value % 2 = 1)
        => IF /\ call.args.role \in {"", "number"}
              /\ call.args.resultRole \in {"", "world"}
           THEN posts = <<TheWorld, OK>>
           ELSE posts = <<OK>>

C7_Witness ==
    /\ Completed /\ FromSmallNumber
    /\ Source.Number.value = 1
    /\ call.args.role = "world" /\ call.args.resultRole = "number"
    /\ posts = <<OK>>

(***************************************************************************)
(* C8.  In the EntityB direction with Name = "theWorld", the 5000          *)
(* odd-keyed EntityA instances are posted if and only if role is "" or     *)
(* "world" and resultRole is "" or "number"; with any other role or        *)
(* resultRole no instance is posted.  The result is MI_RESULT_OK in both   *)
(* cases.                                                                  *)
(***************************************************************************)
C8_NumberWorldRoleFilter ==
    (FromNumberWorld /\ Source.Name.value = "theWorld")
        => IF /\ call.args.role \in {"", "world"}
              /\ call.args.resultRole \in {"", "number"}
           THEN Completed =>
                    /\ Len(posts) = 5001
                    /\ PostedInstances = [k \in 1 .. 5000 |-> SmallNumber(OddKeys[k])]
                    /\ posts[5001] = OK
           ELSE /\ posts \in {<<>>, <<OK>>}
                /\ Completed => posts = <<OK>>

C8_Witness ==
    /\ Completed /\ FromNumberWorld
    /\ Source.Name.value = "theWorld"
    /\ call.args.role = "world" /\ call.args.resultRole = "number"
    /\ Len(posts) = 5001

(***************************************************************************)
(* C9.  Every call of EnumerateInstances, GetInstance, CreateInstance,     *)
(* ModifyInstance, DeleteInstance or ReferenceInstances posts              *)
(* MI_RESULT_NOT_SUPPORTED and no instance, whatever its arguments.        *)
(***************************************************************************)
NotImplemented ==
    {"EnumerateInstances", "GetInstance", "CreateInstance",
     "ModifyInstance", "DeleteInstance", "ReferenceInstances"}

C9_NotSupported ==
    call.op \in NotImplemented
        => /\ Completed
           /\ posts = <<NotSupported>>

C9_Witness ==
    /\ call.op = "DeleteInstance"
    /\ posts = <<NotSupported>>

(***************************************************************************)
(* C10.  AssociatorInstances on a handle that satisfies neither type       *)
(* predicate posts MI_RESULT_FAILED (and nothing else), and neither        *)
(* resolver is entered.                                                    *)
(***************************************************************************)
C10_UnknownTypeFails ==
    (InAssociatorCall /\ ~X_SmallNumber_IsA(Source) /\ ~X_NumberWorld_IsA(Source))
        => /\ Completed
           /\ resolver = "none"
           /\ posts = <<Failed>>

C10_Witness ==
    /\ InAssociatorCall
    /\ ~Source.isSmallNumber /\ ~Source.isNumberWorld
    /\ Source.Name = Field(TRUE, "theWorld")
    /\ posts = <<Failed>>

(***************************************************************************)
(* C11.  Load and Unload post MI_RESULT_OK and nothing else, enter no      *)
(* resolver and change no provider state (m_Module); and when such a call  *)
(* has returned the provider is in the state it was constructed in, so     *)
(* what a later operation posts does not depend on how often and in which  *)
(* order Load and Unload were called before it.                            *)
(***************************************************************************)
LifecycleCall == call.op \in {"Load", "Unload"}

C11_LoadUnloadFrame ==
    /\ [](LifecycleCall => (Completed /\ posts = <<OK>> /\ resolver = "none"))
    /\ [][LifecycleCall' => m_Module' = m_Module]_vars
    /\ [][LifecycleCall => (NoCall' /\ m_Module' = "module")]_vars

C11_Witness ==
    /\ call.op = "Unload"
    /\ Completed
    /\ posts = <<OK>>
    /\ m_Module = "module"

(***************************************************************************)
(* C12.  No partial results are mixed with a failure: in every completed   *)
(* call, of any operation, a posted result other than MI_RESULT_OK is the  *)
(* only post of the call; equivalently a call that posted an instance      *)
(* ends with MI_RESULT_OK.                                                 *)
(***************************************************************************)
C12_NoPartialResults ==
    Completed =>
        /\ posts[Len(posts)] # OK => Len(posts) = 1
        /\ (\E k \in 1 .. Len(posts) : IsInstance(posts[k])) => posts[Len(posts)] = OK

C12_Witness ==
    /\ Completed
    /\ KeyAbsent
    /\ Source.Number.value = 1
    /\ posts = <<Failed>>

(***************************************************************************)
(* C14.  AssociatorInstances tests the SmallNumber predicate first and the *)
(* NumberWorld predicate second, and the first match alone decides: in     *)
(* every call exactly one of the EntityA resolver, the EntityB resolver    *)
(* and the failure for an unknown type runs, the B resolver's steps are    *)
(* taken only in the B resolver, and a handle that satisfies both          *)
(* predicates gets the answer of the EntityA resolver, whatever its Name.  *)
(***************************************************************************)
SatisfiesBoth(h) == h.isSmallNumber /\ h.isNumberWorld

\* What the EntityA direction answers for a handle, by the spec.
EntityAAnswer(h, role, resultRole) ==
    IF ~h.Number.exists THEN <<Failed>>
    ELSE IF /\ h.Number.value % 2 = 1
            /\ role \in {"", "number"}
            /\ resultRole \in {"", "world"}
         THEN <<TheWorld, OK>>
         ELSE <<OK>>

C14_FirstMatchDecides ==
    /\ InAssociatorCall =>
        /\ Source.isSmallNumber => resolver = "AssocOfSmallNumber"
        /\ (~Source.isSmallNumber /\ Source.isNumberWorld)
                => resolver = "AssocOfNumberWorld"
        /\ (~Source.isSmallNumber /\ ~Source.isNumberWorld)
                => (resolver = "none" /\ posts = <<Failed>>)
        /\ (SatisfiesBoth(Source) /\ Completed)
                => posts = EntityAAnswer(Source, call.args.role, call.args.resultRole)
    /\ pc = "loop" => resolver = "AssocOfNumberWorld"
    /\ ~InAssociatorCall => resolver = "none"

C14_Witness ==
    /\ InAssociatorCall /\ Completed
    /\ SatisfiesBoth(Source)
    /\ Source.Number = Field(TRUE, 0)
    /\ Source.Name = Field(TRUE, "theWorld")
    /\ NoRoles
    /\ resolver = "AssocOfSmallNumber"
    /\ posts = <<OK>>

(***************************************************************************)
(* C15.  What AssociatorInstances posts is a function of the source        *)
(* instance (type, key presence, key value), role and resultRole alone:    *)
(* every completed call has posted AssociatorAnswer of these three, so two *)
(* calls that differ only in nameSpace, resultClass, propertySet, keysOnly *)
(* or filter post the same sequence; a resultClass that names neither      *)
(* entity does not suppress the result.                                    *)
(***************************************************************************)
\* What the EntityB direction answers for a handle, by the spec.
EntityBAnswer(h, role, resultRole) ==
    IF ~h.Name.exists THEN <<Failed>>
    ELSE IF /\ h.Name.value = "theWorld"
            /\ role \in {"", "world"}
            /\ resultRole \in {"", "number"}
         THEN [k \in 1 .. 5000 |-> SmallNumber(OddKeys[k])] \o <<OK>>
         ELSE <<OK>>

AssociatorAnswer(h, role, resultRole) ==
    IF h.isSmallNumber THEN EntityAAnswer(h, role, resultRole)
    ELSE IF h.isNumberWorld THEN EntityBAnswer(h, role, resultRole)
    ELSE <<Failed>>

C15_OnlySourceAndRoles ==
    (InAssociatorCall /\ Completed)
        => posts = AssociatorAnswer(Source, call.args.role, call.args.resultRole)

C15_Witness ==
    /\ InAssociatorCall /\ Completed
    /\ call.args.resultClass = "X_Bogus"
    /\ posts = <<TheWorld, OK>>

(***************************************************************************)
(* C18.  In every reachable state every instance posted so far is either   *)
(* the EntityB singleton named "theWorld", posted by the EntityA resolver  *)
(* and at most once in a call, or an EntityA instance whose key is an odd  *)
(* integer of [0,10000), posted by the EntityB resolver.  No even key, no  *)
(* key from 10000 on and no EntityB instance of another name is posted.    *)
(***************************************************************************)
IsTheWorld(p) == IsInstance(p) /\ p.class = "X_NumberWorld" /\ p.Name = "theWorld"

IsOddSmallNumber(p) ==
    /\ IsInstance(p)
    /\ p.class = "X_SmallNumber"
    /\ p.Number \in 0 .. 9999
    /\ p.Number % 2 = 1

C18_PostedInstances ==
    /\ \A k \in 1 .. Len(posts) :
          IsInstance(posts[k]) =>
              \/ IsTheWorld(posts[k]) /\ resolver = "AssocOfSmallNumber"
              \/ IsOddSmallNumber(posts[k]) /\ resolver = "AssocOfNumberWorld"
    /\ Cardinality({ k \in 1 .. Len(posts) : IsTheWorld(posts[k]) }) <= 1

C18_Witness ==
    /\ resolver = "AssocOfNumberWorld"
    /\ pc = "ok"
    /\ Len(posts) = 5000
    /\ IsOddSmallNumber(posts[5000])

(***************************************************************************)
(* C19.  The two directions agree on [0,10000), with empty role and        *)
(* resultRole: the call on the EntityA instance with Number = n posts the  *)
(* "theWorld" singleton if and only if the call on the EntityB instance    *)
(* "theWorld" posts the EntityA instance with key n.  Checked from both    *)
(* sides: a completed EntityB call against the EntityA match of every n of *)
(* the domain, and a completed EntityA call against what the generation    *)
(* loop posts.                                                             *)
(***************************************************************************)
PostedSet == { posts[k] : k \in 1 .. Len(posts) }
LoopPostedSet == { LoopPosts[k] : k \in 1 .. Len(LoopPosts) }

C19_DirectionsAgree ==
    /\ (Completed /\ FromNumberWorld /\ Source.Name.value = "theWorld" /\ NoRoles)
          => \A n \in 0 .. 9999 :
                 SmallNumber(n) \in PostedSet <=> SmallNumberMatch(n, "", "")
    /\ (Completed /\ FromSmallNumber /\ Source.Number.value \in 0 .. 9999 /\ NoRoles)
          => (TheWorld \in PostedSet
                 <=> /\ NumberWorldMatch("theWorld", "", "")
                     /\ SmallNumber(Source.Number.value) \in LoopPostedSet)

C19_Witness ==
    /\ Completed /\ FromSmallNumber /\ NoRoles
    /\ Source.Number.value = 9999
    /\ TheWorld \in PostedSet
    /\ SmallNumber(9999) \in LoopPostedSet

(***************************************************************************)
(* C16.  Every call terminates: once a handler is entered its result post  *)
(* is eventually made; at most 5000 instance posts precede it; and the     *)
(* generation loop of the EntityB direction, once entered, goes through    *)
(* the whole of [0,10000): from a pass with i < 10000 the only step is the *)
(* next pass, with i + 1, and the loop is left with i = 10000 and 5000     *)
(* instances posted.                                                       *)
(***************************************************************************)
C16_Terminates ==
    /\ [](~Idle => <>(Completed /\ IsResult(posts[Len(posts)])))
    /\ [](Len(posts) <= 5001)
    /\ [](Completed => Len(posts) - 1 <= 5000)
    /\ [][(pc = "iter" /\ i < 10000) => (pc' = "iter" /\ i' = i + 1)]_vars
    /\ [][(pc = "iter" /\ pc' # "iter") => (i = 10000 /\ Len(posts) = 5000 /\ pc' = "ok")]_vars

C16_Witness ==
    /\ pc = "iter"
    /\ i = 8
    /\ posts = <<SmallNumber(1), SmallNumber(3), SmallNumber(5), SmallNumber(7)>>

(***************************************************************************)
(* C17.  Calls share no state.  With several calls in progress at once,    *)
(* interleaved statement by statement, and calls repeated one after the    *)
(* other: every completed call has posted on its own Context exactly what  *)
(* it posts when run alone; a call that has not begun has an empty Context *)
(* and i = 0; a completed EntityB-direction call that matched has posted   *)
(* key 1 first; and a step changes the waiting calls only by exchanging    *)
(* one of them, whole, with the running call.                              *)
(***************************************************************************)
\* What a call posts when it is the only call (C9, C11, C15).
AloneAnswer(cl) ==
    IF cl.op = "AssociatorInstances"
    THEN AssociatorAnswer(cl.args.instanceName, cl.args.role, cl.args.resultRole)
    ELSE IF cl.op \in {"Load", "Unload"} THEN <<OK>>
    ELSE <<NotSupported>>

AllContexts == <<RunningContext>> \o ctx

Generates(x) ==
    /\ x.call.op = "AssociatorInstances"
    /\ x.resolver = "AssocOfNumberWorld"
    /\ x.call.args.instanceName.Name = Field(TRUE, "theWorld")

C17_CallsShareNoState ==
    /\ [](\A k \in 1 .. Len(AllContexts) :
            LET x == AllContexts[k] IN
            /\ x.pc = "done" => x.posts = AloneAnswer(x.call)
            /\ x.pc = "idle" => (x.posts = <<>> /\ x.i = 0)
            /\ (x.pc = "done" /\ Generates(x)) => x.posts[1] = SmallNumber(1))
    /\ [][ctx' # ctx =>
            \E c \in Others :
                /\ ctx' = [ctx EXCEPT ![c] = RunningContext]
                /\ RunningContext' = ctx[c]]_vars

\* Two calls in progress: the generation of one is complete while the other
\* stands between its instance post and its status.
C17_Witness ==
    /\ pc = "done" /\ Generates(RunningContext) /\ Len(posts) = 5001
    /\ \E c \in Others :
        /\ ctx[c].pc = "ok"
        /\ ctx[c].resolver = "AssocOfSmallNumber"
        /\ ctx[c].posts = <<TheWorld>>

(***************************************************************************)
(* Vocabulary of the script's properties.                                  *)
(***************************************************************************)
ServiceControl == arg \in {"start", "stop", "restart"}
Direct(cmd) == cmd.prog = OMI_BIN /\ cmd.verb \in {"-d", "-s"}
ServiceManagerCommand(cmd) ==
    cmd.prog \in {"/bin/systemctl", "/sbin/initctl", "/sbin/service",
                  "/usr/sbin/service", "/usr/sbin/invoke-rc.d"}
Issued == { issued[k] : k \in 1 .. Len(issued) }

(***************************************************************************)
(* C13.  With the marker file present, a run of start, stop or restart     *)
(* issues only omiserver -d / omiserver -s and no service-manager command, *)
(* on every platform.  The script does not keep to this: restart_omi       *)
(* tests for Debian 8 and later before it tests for the marker file, and   *)
(* issues /bin/systemctl restart omid there.                               *)
(***************************************************************************)
C13_MarkerMeansDirect ==
    (ServiceControl /\ env.marker)
        => \A cmd \in Issued : Direct(cmd) /\ ~ServiceManagerCommand(cmd)

(***************************************************************************)
(* C20.  As claimed: start issues nothing when the server is reported      *)
(* running, stop issues nothing when it is reported not running, and at    *)
(* most one start command is issued between two consecutive stop commands. *)
(* The last part does not follow: a start command may leave the server not *)
(* running, and the next start then issues another start command.          *)
(***************************************************************************)
C20_AtMostOneStartBetweenStops ==
    /\ [][(arg' = "start" /\ running) => issued' = <<>>]_vars
    /\ [][(arg' = "stop" /\ ~running) => issued' = <<>>]_vars
    /\ [](nStarts <= 1)

(***************************************************************************)
(* C20, amended.  start issues no command when the server is reported      *)
(* running and only start commands otherwise; stop issues no command when  *)
(* the server is reported not running and only stop commands otherwise; so *)
(* a start or stop run adds a start command to those issued since the last *)
(* stop command only from a state in which the server is reported not      *)
(* running.                                                                *)
(***************************************************************************)
C20_NoOpInTargetState ==
    /\ [][(arg' = "start" /\ running) => (issued' = <<>> /\ nStarts' = nStarts)]_vars
    /\ [][(arg' = "stop" /\ ~running) => (issued' = <<>> /\ nStarts' = nStarts)]_vars
    /\ [][arg' = "start" => \A k \in 1 .. Len(issued') : IsStart(issued'[k])]_vars
    /\ [][arg' = "stop" => \A k \in 1 .. Len(issued') : IsStop(issued'[k])]_vars
    /\ [][(arg' \in {"start", "stop"} /\ nStarts' > nStarts) => ~running]_vars

\* A start command brought the server up; the start run after it is a no-op.
C20_Witness ==
    /\ arg = "start"
    /\ running
    /\ issued = <<>>
    /\ nStarts = 1
    /\ status = 0

====
